---- MODULE Spec2Model ----
(***************************************************************************)
(* AsyncIterableX.from and its source adapters (FromArrayIterable,         *)
(* FromAsyncIterable, FromPromiseIterable, FromObservableAsyncIterable     *)
(* with its AsyncObserver buffer, OfAsyncIterable), driven by one consumer *)
(* through the async-iterator protocol (next / return).                    *)
(*                                                                         *)
(* One behaviour is one input handed to from(input, selector) followed by  *)
(* one iteration of the sequence that from built.                          *)
(***************************************************************************)
EXTENDS Integers, Sequences, FiniteSets, TLC

\* ------------------------------------------------------------------ bounds
MaxLen == 2       \* longest iterable / array-like source
MaxNotifs == 3    \* most notifications one observable makes in a run
MaxExtraPulls == 1  \* most pulls a consumer makes after the generator ended
MaxIterations == 2  \* most iterations of one observable-backed sequence
MaxOps == 2         \* most transforms handed to one pipe() call
MaxIn == 3          \* longest input handed to intersect()

Values == {"a", "b"}
Errors == {"e1", "e2"}
SelectorError == "selectorError"
CallbackError == "callbackError"
Ops == {"t1", "t2"}
Items == {"a", "A", "b"}
Comparers == {"default", "ignoreCase"}

VARIABLES
  input,      \* the value handed to from()
  selector,   \* the projection handed to from()
  adapter,    \* class of the sequence from() returned
  source,     \* its _source, as the items it produces when iterated / indexed
  pc,         \* where the adapter's async generator stands
  i,          \* the generator's ordinal counter
  pos,        \* FromAsyncIterable: items taken from the inner iterator
  length,     \* FromArrayIterable: the coerced length
  pending,    \* the selector's result the generator is awaiting
  received,   \* values the consumer's pulls have returned, in order
  outcome,    \* how the iteration ended, as the consumer saw it
  thrown,     \* the error a pull failed with
  observer,   \* the AsyncObserver of this iteration
  subs,       \* calls of observable.subscribe
  unsubs,     \* calls of subscription.unsubscribe
  delivered,  \* every notification the observable made, in order
  promise,    \* FromPromiseIterable: how the awaited source has settled
  started,    \* iterations started: first pulls on a fresh iterator
  extraPulls, \* pulls made on a generator that had already ended
  visitor,    \* forEach: its loop and the callback invocations it made
  piped,      \* pipe: whether it was called and the sequence it returned
  isect       \* intersect: its inputs, its map and what it has yielded

vars == <<input, selector, adapter, source, pc, i, pos, length, pending,
          received, outcome, thrown, observer, subs, unsubs, delivered,
          promise, started, extraPulls, visitor, piped, isect>>

\* ------------------------------------------------------------------ inputs
SeqsUpTo(S, n) == UNION {[1..k -> S] : k \in 0..n}

\* A length property as found on an input: the number halves/2 (so that
\* fractions occur), or something that is no number.
IntegerLength(n) == [num |-> TRUE, halves |-> 2 * n]
RawLengths ==
  [num : {TRUE}, halves : (-2)..(2 * MaxLen + 1)]
    \cup {[num |-> FALSE, halves |-> 0]}

\* An input value, by the shape from() inspects and the items it holds.  The
\* length is the number of items, except on inputs that are array-like and
\* nothing else, where it is any raw length.
Inputs ==
  {x \in [isObject : BOOLEAN, iterator : BOOLEAN, asyncIterator : BOOLEAN,
          then : BOOLEAN, subscribe : BOOLEAN, arrayLike : BOOLEAN,
          elems : SeqsUpTo(Values, MaxLen), length : RawLengths] :
     /\ (~(x.iterator \/ x.asyncIterator \/ x.arrayLike)) => x.elems = <<>>
     /\ (x.iterator \/ x.asyncIterator \/ ~x.arrayLike
           \/ (x.isObject /\ (x.then \/ x.subscribe)))
          => x.length = IntegerLength(Len(x.elems))}

\* source[k] of an array-like whose items are s (k from 0)
Index(s, k) == IF k < Len(s) THEN s[k + 1] ELSE "undefined"

\* A projection (value, index) -> result: it returns the pair of its
\* arguments, and fails at the indices in failAt, by raising or by rejecting.
Selectors ==
  [failAt : {{}} \cup {{k} : k \in 0..MaxLen}, mode : {"raise", "reject"}]

Selector(v, k) == <<v, k>>

\* ------------------------------------------------------- shape predicates
\* isIterable, isAsyncIterable, isArrayLike and toLength are imported from
\* ../internal; an input carries what each of them detects.  toLength takes
\* what is no number as 0, drops the fraction and clamps to
\* [0, max safe length]; the lengths here are far below the upper limit.
isIterable(x) == x.iterator
isAsyncIterable(x) == x.asyncIterator
isArrayLike(x) == x.arrayLike
toLength(l) ==
  IF ~l.num THEN 0 ELSE IF l.halves < 0 THEN 0 ELSE l.halves \div 2

isPromise(x) == x.isObject /\ x.then
isObservable(x) == x.isObject /\ x.subscribe

\* an OfAsyncIterable whose loop skips its first argument
OfAsyncIterableSkipsFirst(args) == Tail(args)

OfAsyncIterable(args) == args

\* ---------------------------------------------------------------- from()
\* from() testing isObservable before isPromise
FromObservableFirst(x) ==
  IF isIterable(x) \/ isAsyncIterable(x)
    THEN [adapter |-> "FromAsyncIterable", source |-> x.elems]
  ELSE IF isObservable(x)
    THEN [adapter |-> "FromObservableAsyncIterable", source |-> <<>>]
  ELSE IF isPromise(x)
    THEN [adapter |-> "FromPromiseIterable", source |-> <<>>]
  ELSE IF isArrayLike(x)
    THEN [adapter |-> "FromArrayIterable", source |-> x.elems]
  ELSE [adapter |-> "FromAsyncIterable", source |-> OfAsyncIterable(<<x>>)]

From(x) ==
  IF isIterable(x) \/ isAsyncIterable(x)
    THEN [adapter |-> "FromAsyncIterable", source |-> x.elems]
  ELSE IF isPromise(x)
    THEN [adapter |-> "FromPromiseIterable", source |-> <<>>]
  ELSE IF isObservable(x)
    THEN [adapter |-> "FromObservableAsyncIterable", source |-> <<>>]
  ELSE IF isArrayLike(x)
    THEN [adapter |-> "FromArrayIterable", source |-> x.elems]
  ELSE [adapter |-> "FromAsyncIterable", source |-> OfAsyncIterable(<<x>>)]

\* ----------------------------------------------------------- AsyncObserver
NewAsyncObserver ==
  [values |-> <<>>, hasCompleted |-> FALSE, hasError |-> FALSE,
   errorValue |-> "null", closed |-> FALSE]

\* next() that puts the new value at the front of the buffer
ObserverNextUnshift(o, v) ==
  IF ~o.closed THEN [o EXCEPT !.values = <<v>> \o @] ELSE o

ObserverNext(o, v) ==
  IF ~o.closed THEN [o EXCEPT !.values = Append(@, v)] ELSE o

\* error() without the closed test
ObserverErrorUnguarded(o, err) ==
  [o EXCEPT !.closed = TRUE, !.hasError = TRUE, !.errorValue = err]

ObserverError(o, err) ==
  IF ~o.closed
    THEN [o EXCEPT !.closed = TRUE, !.hasError = TRUE, !.errorValue = err]
    ELSE o

ObserverComplete(o) ==
  IF ~o.closed THEN [o EXCEPT !.closed = TRUE] ELSE o

\* ------------------------------------------------------------------- Init
NoPending == [ok |-> TRUE, val |-> <<>>]

\* forEach not called
NoVisitor ==
  [pc |-> "idle", i |-> 0, calls |-> <<>>, active |-> 0, pulls |-> 0,
   failAt |-> {}, error |-> "none"]

\* The sequence pipe() is called on, as a term, and pipe() not called
Self == [op |-> "from", input |-> <<>>]
NotPiped == [called |-> FALSE, operations |-> <<>>, result |-> Self]

\* intersect not called
NoIntersect ==
  [pc |-> "idle", first |-> <<>>, second |-> <<>>, comparer |-> "default",
   map |-> <<>>, j |-> 0, out |-> <<>>]

Init ==
  /\ input \in Inputs
  /\ selector \in Selectors
  /\ adapter = "none"
  /\ source = <<>>
  /\ pc = "unbuilt"
  /\ i = 0
  /\ pos = 0
  /\ length = 0
  /\ pending = NoPending
  /\ received = <<>>
  /\ outcome = "none"
  /\ thrown = "none"
  /\ observer = NewAsyncObserver
  /\ subs = 0
  /\ unsubs = 0
  /\ delivered = <<>>
  /\ promise = [state |-> "pending", value |-> "none"]
  /\ started = 0
  /\ extraPulls = 0
  /\ visitor = NoVisitor
  /\ piped = NotPiped
  /\ isect = NoIntersect

\* ------------------------------------------------- generator bookkeeping
\* The generator ends by throwing err: the pending pull fails with err.
Throw(err) ==
  /\ pc' = "completed"
  /\ outcome' = "error"
  /\ thrown' = err

\* The generator returns: the pending pull reports exhaustion.
Finish ==
  /\ pc' = "completed"
  /\ outcome' = "done"
  /\ thrown' = thrown

\* the selector called with ++i instead of i++
CallSelectorPreIncrement(v) ==
  /\ i' = i + 1
  /\ IF (i + 1) \in selector.failAt /\ selector.mode = "raise"
       THEN /\ Throw(SelectorError)
            /\ pending' = pending
       ELSE /\ pc' = "awaitSelector"
            /\ pending' = IF (i + 1) \in selector.failAt
                            THEN [ok |-> FALSE, val |-> <<>>]
                            ELSE [ok |-> TRUE, val |-> Selector(v, i + 1)]
            /\ UNCHANGED <<outcome, thrown>>

\* this._selector(v, i++) followed by the await of its result.
CallSelector(v) ==
  /\ i' = i + 1
  /\ IF i \in selector.failAt /\ selector.mode = "raise"
       THEN /\ Throw(SelectorError)
            /\ pending' = pending
       ELSE /\ pc' = "awaitSelector"
            /\ pending' = IF i \in selector.failAt
                            THEN [ok |-> FALSE, val |-> <<>>]
                            ELSE [ok |-> TRUE, val |-> Selector(v, i)]
            /\ UNCHANGED <<outcome, thrown>>

\* the closed branch without its unsubscribe() call
PollClosedNoUnsubscribe ==
  /\ unsubs' = unsubs
  /\ IF observer.hasError THEN Throw(observer.errorValue) ELSE Finish

\* The poll loop's branch for a closed observer with an empty buffer:
\* unsubscribe, then throw the recorded error or leave the loop.
PollClosed ==
  /\ unsubs' = unsubs + 1
  /\ IF observer.hasError THEN Throw(observer.errorValue) ELSE Finish

\* -------------------------------------------------------------- actions
\* AsyncIterableX.from(input, selector)
FromCall ==
  /\ pc = "unbuilt"
  /\ adapter' = From(input).adapter
  /\ source' = From(input).source
  /\ pc' = "suspendedStart"
  /\ UNCHANGED <<input, selector, started, extraPulls, visitor, piped, isect,
                 i, pos, length, pending, received, outcome,
                 thrown, observer, subs, unsubs, delivered, promise>>

\* a generator that keeps the observer of the iteration before
GeneratorStartSharedObserver ==
  /\ pc = "suspendedStart"
  /\ started' = started + 1
  /\ i' = 0
  /\ IF adapter = "FromArrayIterable"
       THEN /\ length' = toLength(input.length)
            /\ pc' = "loop"
            /\ UNCHANGED <<observer, subs>>
     ELSE IF adapter = "FromObservableAsyncIterable"
       THEN /\ observer' = observer
            /\ subs' = subs + 1
            /\ pc' = "subscribing"
            /\ UNCHANGED length
     ELSE /\ pc' = "awaitSource"
          /\ UNCHANGED <<length, observer, subs>>
  /\ UNCHANGED <<input, selector, adapter, source, pos, pending, received,
                 outcome, thrown, unsubs, delivered, promise>>

\* A first next(): the generator body runs to its first suspension point or
\* to the head of its loop.
GeneratorStart ==
  /\ pc = "suspendedStart"
  /\ started' = started + 1
  /\ i' = 0
  /\ IF adapter = "FromArrayIterable"
       THEN /\ length' = toLength(input.length)
            /\ pc' = "loop"
            /\ UNCHANGED <<observer, subs>>
     ELSE IF adapter = "FromObservableAsyncIterable"
       THEN /\ observer' = NewAsyncObserver
            /\ subs' = subs + 1
            /\ pc' = "subscribing"
            /\ UNCHANGED length
     ELSE /\ pc' = "awaitSource"
          /\ UNCHANGED <<length, observer, subs>>
  /\ UNCHANGED <<input, selector, adapter, source, pos, pending, received,
                 outcome, thrown, unsubs, delivered, promise>>

\* The consumer's first next() on the iterator.
ConsumerStart ==
  /\ GeneratorStart
  /\ UNCHANGED <<extraPulls, visitor, piped, isect>>

\* A later next(): the generator resumes after its yield.
GeneratorResume ==
  /\ pc = "suspendedYield"
  /\ IF adapter = "FromPromiseIterable"
       THEN Finish
       ELSE /\ pc' = IF adapter = "FromAsyncIterable" THEN "awaitSource" ELSE "loop"
            /\ UNCHANGED <<outcome, thrown>>
  /\ UNCHANGED <<input, selector, started, adapter, source, i, pos, length,
                 pending, received, observer, subs, unsubs, delivered, promise>>

\* The consumer's next() after a value it was given.
ConsumerNext ==
  /\ GeneratorResume
  /\ UNCHANGED <<extraPulls, visitor, piped, isect>>

\* return() on the suspended generator.  No generator body has a
\* try/finally, so nothing else runs.
GeneratorReturn ==
  /\ pc \in {"suspendedStart", "suspendedYield"}
  /\ pc' = "completed"
  /\ outcome' = "returned"
  /\ UNCHANGED <<input, selector, started, adapter, source, i, pos, length,
                 pending, received, thrown, observer, subs, unsubs, delivered,
                 promise>>

\* The consumer abandons the iteration.
ConsumerReturn ==
  /\ GeneratorReturn
  /\ UNCHANGED <<extraPulls, visitor, piped, isect>>

\* next() on a generator that has ended (returned, thrown or abandoned): no
\* generator code runs and the pull reports exhaustion.
ConsumerPullAfterEnd ==
  /\ pc = "completed"
  /\ extraPulls < MaxExtraPulls
  /\ extraPulls' = extraPulls + 1
  /\ UNCHANGED <<input, selector, started, visitor, piped, isect, adapter,
                 source, pc, i, pos, length, pending, received, outcome, thrown,
                 observer, subs, unsubs, delivered, promise>>

\* the array loop running while (i <= length)
ArrayLoopInclusive ==
  /\ pc = "loop"
  /\ adapter = "FromArrayIterable"
  /\ IF i <= length
       THEN CallSelector(Index(source, i))
       ELSE Finish /\ UNCHANGED <<i, pending>>
  /\ UNCHANGED <<input, selector, started, extraPulls, visitor, piped, isect,
                 adapter, source, pos, length, received,
                 observer, subs, unsubs, delivered, promise>>

\* FromArrayIterable: while (i < length) yield await selector(source[i], i++)
ArrayLoop ==
  /\ pc = "loop"
  /\ adapter = "FromArrayIterable"
  /\ IF i < length
       THEN CallSelector(Index(source, i))
       ELSE Finish /\ UNCHANGED <<i, pending>>
  /\ UNCHANGED <<input, selector, started, extraPulls, visitor, piped, isect,
                 adapter, source, pos, length, received,
                 observer, subs, unsubs, delivered, promise>>

\* FromAsyncIterable: for await (item of source) yield await selector(item, i++)
IterableNext ==
  /\ pc = "awaitSource"
  /\ adapter = "FromAsyncIterable"
  /\ IF pos < Len(source)
       THEN /\ pos' = pos + 1
            /\ CallSelector(source[pos + 1])
       ELSE Finish /\ UNCHANGED <<i, pos, pending>>
  /\ UNCHANGED <<input, selector, started, extraPulls, visitor, piped, isect,
                 adapter, source, length, received,
                 observer, subs, unsubs, delivered, promise>>

\* FromPromiseIterable: const item = await this._source, fulfilled
PromiseResolve ==
  /\ pc = "awaitSource"
  /\ adapter = "FromPromiseIterable"
  /\ \E v \in Values :
       /\ promise' = [state |-> "fulfilled", value |-> v]
       /\ CallSelector(v)
  /\ UNCHANGED <<input, selector, started, extraPulls, visitor, piped, isect,
                 adapter, source, pos, length, received,
                 observer, subs, unsubs, delivered>>

\* a rejection of the awaited source ending the sequence quietly
PromiseRejectSwallowed ==
  /\ pc = "awaitSource"
  /\ adapter = "FromPromiseIterable"
  /\ \E e \in Errors :
       /\ promise' = [state |-> "rejected", value |-> e]
       /\ Finish
  /\ UNCHANGED <<input, selector, started, extraPulls, visitor, piped, isect,
                 adapter, source, i, pos, length, pending,
                 received, observer, subs, unsubs, delivered>>

\* FromPromiseIterable: const item = await this._source, rejected
PromiseReject ==
  /\ pc = "awaitSource"
  /\ adapter = "FromPromiseIterable"
  /\ \E e \in Errors :
       /\ promise' = [state |-> "rejected", value |-> e]
       /\ Throw(e)
  /\ UNCHANGED <<input, selector, started, extraPulls, visitor, piped, isect,
                 adapter, source, i, pos, length, pending,
                 received, observer, subs, unsubs, delivered>>

\* a rejected selector result handed to the consumer like a value
SelectorSettlesDeliversFailure ==
  /\ pc = "awaitSelector"
  /\ received' = Append(received, pending.val)
  /\ pc' = "suspendedYield"
  /\ pending' = NoPending
  /\ UNCHANGED <<input, selector, started, extraPulls, visitor, piped, isect,
                 adapter, source, i, pos, length, observer, subs, unsubs,
                 delivered, promise, outcome, thrown>>

\* The awaited selector result settles: the value is yielded to the consumer,
\* or the rejection is thrown out of the generator.
SelectorSettles ==
  /\ pc = "awaitSelector"
  /\ IF pending.ok
       THEN /\ received' = Append(received, pending.val)
            /\ pc' = "suspendedYield"
            /\ UNCHANGED <<outcome, thrown>>
       ELSE /\ Throw(SelectorError)
            /\ UNCHANGED received
  /\ pending' = NoPending
  /\ UNCHANGED <<input, selector, started, extraPulls, visitor, piped, isect,
                 adapter, source, i, pos, length, observer,
                 subs, unsubs, delivered, promise>>

\* observable.subscribe(observer) returns to the generator.
SubscribeReturn ==
  /\ pc = "subscribing"
  /\ pc' = "loop"
  /\ UNCHANGED <<input, selector, started, extraPulls, visitor, piped, isect,
                 adapter, source, i, pos, length, pending,
                 received, outcome, thrown, observer, subs, unsubs, delivered, promise>>

\* the poll loop testing observer.closed before the buffer
ObservablePollClosedFirst ==
  /\ pc = "loop"
  /\ adapter = "FromObservableAsyncIterable"
  /\ IF observer.closed
       THEN /\ PollClosed
            /\ UNCHANGED <<observer, i, pending>>
     ELSE IF Len(observer.values) > 0
       THEN /\ observer' = [observer EXCEPT !.values = Tail(@)]
            /\ CallSelector(Head(observer.values))
            /\ UNCHANGED unsubs
     ELSE UNCHANGED <<pc, outcome, thrown, observer, i, pending, unsubs>>
  /\ UNCHANGED <<input, selector, started, extraPulls, visitor, piped, isect,
                 adapter, source, pos, length, received,
                 subs, delivered, promise>>

\* FromObservableAsyncIterable: one turn of while (1) { ... }.  With the
\* buffer empty and the observer open no branch is taken and the loop
\* re-tests at once, without suspending.
ObservablePoll ==
  /\ pc = "loop"
  /\ adapter = "FromObservableAsyncIterable"
  /\ IF Len(observer.values) > 0
       THEN /\ observer' = [observer EXCEPT !.values = Tail(@)]
            /\ CallSelector(Head(observer.values))
            /\ UNCHANGED unsubs
     ELSE IF observer.closed
       THEN /\ PollClosed
            /\ UNCHANGED <<observer, i, pending>>
     ELSE UNCHANGED <<pc, outcome, thrown, observer, i, pending, unsubs>>
  /\ UNCHANGED <<input, selector, started, extraPulls, visitor, piped, isect,
                 adapter, source, pos, length, received,
                 subs, delivered, promise>>

\* The observable can call the observer while subscribe() runs and whenever
\* the generator is suspended (at an await or at a yield) or has ended; it
\* cannot while the generator holds the thread in its loop.
CanNotify ==
  /\ subs > 0
  /\ pc \in {"subscribing", "awaitSelector", "suspendedYield", "completed"}
  /\ Len(delivered) < MaxNotifs

NotifyNext ==
  /\ CanNotify
  /\ \E v \in Values :
       /\ observer' = ObserverNext(observer, v)
       /\ delivered' = Append(delivered, [type |-> "next", arg |-> v])
  /\ UNCHANGED <<input, selector, started, extraPulls, visitor, piped, isect,
                 adapter, source, pc, i, pos, length, pending,
                 received, outcome, thrown, subs, unsubs, promise>>

NotifyError ==
  /\ CanNotify
  /\ \E e \in Errors :
       /\ observer' = ObserverError(observer, e)
       /\ delivered' = Append(delivered, [type |-> "error", arg |-> e])
  /\ UNCHANGED <<input, selector, started, extraPulls, visitor, piped, isect,
                 adapter, source, pc, i, pos, length, pending,
                 received, outcome, thrown, subs, unsubs, promise>>

NotifyComplete ==
  /\ CanNotify
  /\ observer' = ObserverComplete(observer)
  /\ delivered' = Append(delivered, [type |-> "complete", arg |-> "none"])
  /\ UNCHANGED <<input, selector, started, extraPulls, visitor, piped, isect,
                 adapter, source, pc, i, pos, length, pending,
                 received, outcome, thrown, subs, unsubs, promise>>

Next ==
  \/ FromCall
  \/ ConsumerStart
  \/ ConsumerNext
  \/ ConsumerReturn
  \/ ConsumerPullAfterEnd
  \/ ArrayLoop
  \/ IterableNext
  \/ PromiseResolve
  \/ PromiseReject
  \/ SelectorSettles
  \/ SubscribeReturn
  \/ ObservablePoll
  \/ NotifyNext
  \/ NotifyError
  \/ NotifyComplete

Spec == Init /\ [][Next]_vars

\* ------------------------------------------------------------- forEach
\* State of the sequence and of its generator, which forEach only touches
\* through next() and return().
genVars ==
  <<input, selector, adapter, source, pc, i, pos, length, pending, received,
    outcome, thrown, observer, subs, unsubs, delivered, promise, started>>

\* forEach(projection) is called on the built sequence: the callback is bound
\* (it fails at the ordinals in failAt), i = 0, and for await takes the
\* iterator.
ForEachCall ==
  /\ pc = "suspendedStart"
  /\ visitor.pc = "idle"
  /\ \E F \in {{}} \cup {{k} : k \in 0..MaxLen} :
       visitor' = [NoVisitor EXCEPT !.pc = "pull", !.failAt = F]
  /\ UNCHANGED <<genVars, extraPulls, piped, isect>>

\* for await requests the next value.
ForEachPull ==
  /\ visitor.pc = "pull"
  /\ GeneratorStart \/ GeneratorResume
  /\ visitor' = [visitor EXCEPT !.pc = "awaitNext", !.pulls = @ + 1]
  /\ UNCHANGED <<extraPulls, piped, isect>>

\* a loop body calling fn(item, i++) without awaiting it
ForEachInvokeNoAwait ==
  /\ visitor.pc = "awaitNext"
  /\ pc = "suspendedYield"
  /\ visitor' = [visitor EXCEPT
                   !.pc = "pull",
                   !.calls = Append(@, <<received[Len(received)], visitor.i>>),
                   !.i = @ + 1,
                   !.active = @ + 1]
  /\ UNCHANGED <<genVars, extraPulls, piped, isect>>

\* The pull returned a value: the loop body calls fn(item, i++) and awaits it.
ForEachInvoke ==
  /\ visitor.pc = "awaitNext"
  /\ pc = "suspendedYield"
  /\ visitor' = [visitor EXCEPT
                   !.pc = "inCallback",
                   !.calls = Append(@, <<received[Len(received)], visitor.i>>),
                   !.i = @ + 1,
                   !.active = @ + 1]
  /\ UNCHANGED <<genVars, extraPulls, piped, isect>>

\* a loop that goes on after a failed callback
ForEachCallbackSettlesSwallowing ==
  /\ visitor.pc = "inCallback"
  /\ visitor.active > 0
  /\ visitor' = [visitor EXCEPT !.pc = "pull", !.active = @ - 1]
  /\ UNCHANGED <<genVars, extraPulls, piped, isect>>

\* The awaited callback settles.  When it failed, for await closes the
\* iterator with return() and forEach rejects with the callback's error.
ForEachCallbackSettles ==
  /\ visitor.pc = "inCallback"
  /\ visitor.active > 0
  /\ IF (visitor.i - 1) \in visitor.failAt
       THEN /\ GeneratorReturn
            /\ visitor' = [visitor EXCEPT !.pc = "rejected",
                                          !.error = CallbackError,
                                          !.active = @ - 1]
       ELSE /\ visitor' = [visitor EXCEPT !.pc = "pull", !.active = @ - 1]
            /\ UNCHANGED genVars
  /\ UNCHANGED <<extraPulls, piped, isect>>

\* The pull reported exhaustion: the loop ends and forEach resolves.
ForEachExhausted ==
  /\ visitor.pc = "awaitNext"
  /\ pc = "completed"
  /\ outcome = "done"
  /\ visitor' = [visitor EXCEPT !.pc = "resolved"]
  /\ UNCHANGED <<genVars, extraPulls, piped, isect>>

\* The pull failed: forEach rejects with the sequence's error.
ForEachSequenceFailed ==
  /\ visitor.pc = "awaitNext"
  /\ pc = "completed"
  /\ outcome = "error"
  /\ visitor' = [visitor EXCEPT !.pc = "rejected", !.error = thrown]
  /\ UNCHANGED <<genVars, extraPulls, piped, isect>>

NextForEach ==
  \/ FromCall
  \/ ForEachCall
  \/ ForEachPull
  \/ ForEachInvoke
  \/ ForEachCallbackSettles
  \/ ForEachExhausted
  \/ ForEachSequenceFailed
  \/ ArrayLoop
  \/ IterableNext
  \/ PromiseResolve
  \/ PromiseReject
  \/ SelectorSettles
  \/ SubscribeReturn
  \/ ObservablePoll
  \/ NotifyNext
  \/ NotifyError
  \/ NotifyComplete

SpecForEach == Init /\ [][NextForEach]_vars

\* ---------------------------------------------------------------- pipe
\* fn(prev): a transform applied to a sequence gives a new sequence over it
Apply(fn, prev) == [op |-> fn, input |-> <<prev>>]

\* operations.reduce((prev, fn) => fn(prev), input)
RECURSIVE Reduce(_, _)
Reduce(operations, prev) ==
  IF operations = <<>>
    THEN prev
    ELSE Reduce(Tail(operations), Apply(Head(operations), prev))

\* the reduction taking the transforms from the right
RECURSIVE ReduceRight(_, _)
ReduceRight(operations, prev) ==
  IF operations = <<>>
    THEN prev
    ELSE ReduceRight(SubSeq(operations, 1, Len(operations) - 1),
                     Apply(operations[Len(operations)], prev))

\* pipe folding its transforms right to left
PipeFromRight(self, operations) ==
  IF Len(operations) = 0 THEN self ELSE ReduceRight(operations, self)

\* pipe without its test for no transforms, wrapping what it reduces to
PipeAlwaysWraps(self, operations) ==
  Apply("piped", Reduce(operations, self))

\* this.pipe(...operations)
Pipe(self, operations) ==
  IF Len(operations) = 0 THEN self ELSE Reduce(operations, self)

\* a pipe() that starts iterating the sequence it composes over
PipeCallEager ==
  /\ pc = "suspendedStart"
  /\ ~piped.called
  /\ \E operations \in SeqsUpTo(Ops, MaxOps) :
       piped' = [called |-> TRUE, operations |-> operations,
                 result |-> Pipe(Self, operations)]
  /\ IF adapter = "FromArrayIterable"
       THEN /\ length' = toLength(input.length)
            /\ pc' = "loop"
            /\ UNCHANGED <<observer, subs>>
     ELSE IF adapter = "FromObservableAsyncIterable"
       THEN /\ observer' = NewAsyncObserver
            /\ subs' = subs + 1
            /\ pc' = "subscribing"
            /\ UNCHANGED length
     ELSE /\ pc' = "awaitSource"
          /\ UNCHANGED <<length, observer, subs>>
  /\ UNCHANGED <<input, selector, adapter, source, i, pos, pending, received,
                 outcome, thrown, unsubs, delivered, promise, started,
                 extraPulls, visitor, isect>>

\* pipe(...operations) is called on the built sequence.
PipeCall ==
  /\ pc = "suspendedStart"
  /\ ~piped.called
  /\ \E operations \in SeqsUpTo(Ops, MaxOps) :
       piped' = [called |-> TRUE, operations |-> operations,
                 result |-> Pipe(Self, operations)]
  /\ UNCHANGED <<genVars, extraPulls, visitor, isect>>

\* The first pull on the sequence pipe() returned reaches the sequence it
\* was composed over.
PipedStart ==
  /\ piped.called
  /\ GeneratorStart
  /\ UNCHANGED <<extraPulls, visitor, piped, isect>>

NextPipe ==
  \/ FromCall
  \/ PipeCall
  \/ PipedStart
  \/ ArrayLoop
  \/ IterableNext
  \/ PromiseResolve
  \/ PromiseReject
  \/ SelectorSettles
  \/ SubscribeReturn
  \/ ObservablePoll
  \/ NotifyNext
  \/ NotifyError
  \/ NotifyComplete

SpecPipe == Init /\ [][NextPipe]_vars

\* ----------------------------------------------------------- intersect
LowerCase == [a |-> "a", A |-> "a", b |-> "b"]

\* comparer(x, y): the default comparer, or one the caller passes
Compare(comparer, x, y) ==
  IF comparer = "default" THEN x = y ELSE LowerCase[x] = LowerCase[y]

\* arrayIndexOf(array, item, comparer): index from 0 of the first element
\* that compares equal to item, or -1
arrayIndexOf(array, item, comparer) ==
  LET hits == {k \in 1..Len(array) : Compare(comparer, item, array[k])}
  IN  IF hits = {}
        THEN -1
        ELSE (CHOOSE k \in hits : \A h \in hits : k <= h) - 1

\* array.splice(idx, 1)
Splice(array, idx) ==
  SubSeq(array, 1, idx) \o SubSeq(array, idx + 2, Len(array))

\* arrayRemove that reports the match and leaves the element in place
arrayRemoveKeeps(array, item, comparer) ==
  LET idx == arrayIndexOf(array, item, comparer)
  IN  IF idx = -1
        THEN [removed |-> FALSE, array |-> array]
        ELSE [removed |-> TRUE, array |-> array]

\* arrayRemove(array, item, comparer): the result and the array afterwards
arrayRemove(array, item, comparer) ==
  LET idx == arrayIndexOf(array, item, comparer)
  IN  IF idx = -1
        THEN [removed |-> FALSE, array |-> array]
        ELSE [removed |-> TRUE, array |-> Splice(array, idx)]

\* for (let secondItem of second) from its j-th item on, up to the next
\* yield or the end of second
RECURSIVE SecondLoop(_, _, _, _)
SecondLoop(map, second, j, comparer) ==
  IF j >= Len(second)
    THEN [done |-> TRUE, map |-> map, j |-> j, value |-> "undefined"]
    ELSE LET secondItem == second[j + 1]
             r == arrayRemove(map, secondItem, comparer)
         IN  IF r.removed
               THEN [done |-> FALSE, map |-> r.array, j |-> j + 1,
                     value |-> secondItem]
               ELSE SecondLoop(r.array, second, j + 1, comparer)

mainVars ==
  <<genVars, extraPulls, visitor, piped>>

\* intersect(first, second, comparer) is called: a suspended generator.
IntersectCall ==
  /\ isect.pc = "idle"
  /\ \E first \in SeqsUpTo(Items, MaxIn), second \in SeqsUpTo(Items, MaxIn),
        comparer \in Comparers :
       isect' = [NoIntersect EXCEPT !.pc = "suspendedStart",
                                    !.first = first,
                                    !.second = second,
                                    !.comparer = comparer]
  /\ UNCHANGED mainVars

\* next() on the generator: on the first call first is copied to map; then
\* the loop over second runs to its next yield or to the end.
IntersectNext ==
  /\ isect.pc \in {"suspendedStart", "suspendedYield"}
  /\ LET map == IF isect.pc = "suspendedStart" THEN isect.first
                                               ELSE isect.map
         r == SecondLoop(map, isect.second, isect.j, isect.comparer)
     IN  isect' = [isect EXCEPT
                     !.pc = IF r.done THEN "completed" ELSE "suspendedYield",
                     !.map = r.map,
                     !.j = r.j,
                     !.out = IF r.done THEN @ ELSE Append(@, r.value)]
  /\ UNCHANGED mainVars

\* intersect() works on its own arguments; nothing is built with from().
InitIntersect ==
  /\ Init
  /\ input = [isObject |-> FALSE, iterator |-> FALSE, asyncIterator |-> FALSE,
              then |-> FALSE, subscribe |-> FALSE, arrayLike |-> FALSE,
              elems |-> <<>>, length |-> IntegerLength(0)]
  /\ selector = [failAt |-> {}, mode |-> "raise"]

NextIntersect ==
  \/ IntersectCall
  \/ IntersectNext

SpecIntersect == InitIntersect /\ [][NextIntersect]_vars

\* ------------------------------------------- iterating a sequence again
\* [Symbol.asyncIterator]() called again on an observable-backed sequence
\* whose last iteration has ended: a new generator, not started.
NewIteration ==
  /\ adapter = "FromObservableAsyncIterable"
  /\ pc = "completed"
  /\ started < MaxIterations
  /\ pc' = "suspendedStart"
  /\ outcome' = "none"
  /\ thrown' = "none"
  /\ UNCHANGED <<input, selector, started, extraPulls, visitor, piped, isect,
                 adapter, source, i, pos, length, pending, received, observer,
                 subs, unsubs, delivered, promise>>

InitIter ==
  /\ Init
  /\ From(input).adapter = "FromObservableAsyncIterable"

NextIter ==
  \/ FromCall
  \/ ConsumerStart
  \/ ConsumerNext
  \/ ConsumerReturn
  \/ SelectorSettles
  \/ SubscribeReturn
  \/ ObservablePoll
  \/ NotifyNext
  \/ NotifyError
  \/ NotifyComplete
  \/ NewIteration

SpecIter == InitIter /\ [][NextIter]_vars

\* The generator's own steps run whenever they can (the job queue is served),
\* subscribe() returns, and the observable ends its stream when it gets the
\* thread.
GeneratorStep ==
  ArrayLoop \/ IterableNext \/ SelectorSettles \/ SubscribeReturn \/ ObservablePoll

FairSpec ==
  /\ Spec
  /\ WF_vars(GeneratorStep)
  /\ WF_vars(NotifyComplete \/ NotifyError)

\* ======================================================================
\* Properties
\* ======================================================================
IsPrefix(s, t) == Len(s) <= Len(t) /\ s = SubSeq(t, 1, Len(s))

\* f applied to the k-th element with ordinal k (from 0), for a whole source
Projected(s) == [k \in 1..Len(s) |-> Selector(s[k], k - 1)]

\* Place of the first error/complete among the notifications d made
\* (Len(d) + 1 when there is none), and the values next delivered before it.
FirstTerminal(d) ==
  IF \E k \in 1..Len(d) : d[k].type # "next"
    THEN CHOOSE k \in 1..Len(d) :
           /\ d[k].type # "next"
           /\ \A j \in 1..(k - 1) : d[j].type = "next"
    ELSE Len(d) + 1

NextsBeforeTerminal(d) == [k \in 1..(FirstTerminal(d) - 1) |-> d[k].arg]

IsObservableRun == adapter = "FromObservableAsyncIterable"
SourceFailed == outcome = "error" /\ thrown \in Errors
SelectorFailed == outcome = "error" /\ thrown = SelectorError

\* C1: over an observable, what the consumer has received is always
\* f(v_k, k) for the first values next delivered before the first terminal
\* notification, in delivery order; and when exhaustion is signalled the
\* buffer is empty and every such value has been received, none dropped or
\* duplicated.
C1_BridgeCompleteness ==
  IsObservableRun =>
    /\ IsPrefix(received, Projected(NextsBeforeTerminal(delivered)))
    /\ outcome = "done" =>
         /\ observer.values = <<>>
         /\ received = Projected(NextsBeforeTerminal(delivered))

\* C1 witness: two different values arrived, then complete, and both values
\* were received in order before exhaustion was signalled.
C1_Witness ==
  /\ IsObservableRun
  /\ outcome = "done"
  /\ Len(received) = 2
  /\ received[1][1] # received[2][1]
  /\ FirstTerminal(delivered) = 3

\* C2: a pull pending on the bridge eventually returns (a value, exhaustion
\* or the error) when the generator is scheduled and the observable ends its
\* stream as soon as it gets the thread.
C2_PendingPullReturns ==
  (IsObservableRun /\ pc \in {"subscribing", "loop", "awaitSelector"})
    ~> (pc \in {"suspendedYield", "completed"})

\* C3: when a pull fails with the source's error e, e is the error of the
\* first terminal notification, the buffer is empty and the consumer has
\* received f(v_0,0)..f(v_{n-1},n-1) for all values delivered before it.
C3_ErrorAfterValues ==
  (IsObservableRun /\ SourceFailed) =>
    /\ observer.values = <<>>
    /\ received = Projected(NextsBeforeTerminal(delivered))
    /\ FirstTerminal(delivered) <= Len(delivered)
    /\ delivered[FirstTerminal(delivered)].type = "error"
    /\ thrown = delivered[FirstTerminal(delivered)].arg

\* C3 witness: a value, then error; the value was received before the failure.
C3_Witness ==
  /\ IsObservableRun
  /\ SourceFailed
  /\ Len(received) >= 1
  /\ delivered[Len(received) + 1].type = "error"

\* C4: once an iteration that subscribed has ended (source completed, source
\* errored, or the consumer called return()), unsubscribe was called exactly
\* once.
C4_UnsubscribeOnEveryEnd ==
  (IsObservableRun /\ subs > 0 /\ (outcome \in {"done", "returned"} \/ SourceFailed))
    => unsubs = 1

\* C5: unsubscribe is never called more than once, and it has been called
\* (once) whenever exhaustion or the source's error has been surfaced to the
\* consumer, whatever notifications arrive afterwards.
C5_UnsubscribeOnceOnClose ==
  /\ unsubs <= 1
  /\ (IsObservableRun /\ (outcome = "done" \/ SourceFailed)) => unsubs = 1

\* C5 witness: the iteration ended on a close, and a notification came later.
C5_Witness ==
  /\ IsObservableRun
  /\ outcome = "done"
  /\ unsubs = 1
  /\ Len(delivered) > FirstTerminal(delivered)

\* C6: when the projection fails on a buffered value, the subscription has
\* been released by the time the failure reaches the consumer.
C6_UnsubscribeOnSelectorFailure ==
  (IsObservableRun /\ SelectorFailed) => unsubs = 1

\* What from() can see of its input
HasIteration == input.iterator \/ input.asyncIterator
HasThen == input.isObject /\ input.then
HasSubscribe == input.isObject /\ input.subscribe
HasLength == input.arrayLike
Built == pc # "unbuilt"
\* the input's length is the number of its items
WellFormedLength == input.length = IntegerLength(Len(input.elems))

\* C7 as stated: iteration before array-like, array-like before
\* deferred-single, deferred-single before observable, else the fallback.
C7_SpecPriority ==
  Built =>
    /\ HasIteration => adapter = "FromAsyncIterable"
    /\ (~HasIteration /\ HasLength) => adapter = "FromArrayIterable"
    /\ (~HasIteration /\ ~HasLength /\ HasThen) => adapter = "FromPromiseIterable"
    /\ (~HasIteration /\ ~HasLength /\ ~HasThen /\ HasSubscribe)
         => adapter = "FromObservableAsyncIterable"
    /\ (~HasIteration /\ ~HasLength /\ ~HasThen /\ ~HasSubscribe)
         => (adapter = "FromAsyncIterable" /\ source = <<input>>)

\* C7 amended: from() picks one adapter by the priority iteration, then
\* deferred-single (then), then observable (subscribe), then array-like, and
\* the single-element fallback only when none matches.
C7_AdapterPriority ==
  Built =>
    /\ HasIteration => (adapter = "FromAsyncIterable" /\ source = input.elems)
    /\ (~HasIteration /\ HasThen) => adapter = "FromPromiseIterable"
    /\ (~HasIteration /\ ~HasThen /\ HasSubscribe)
         => adapter = "FromObservableAsyncIterable"
    /\ (~HasIteration /\ ~HasThen /\ ~HasSubscribe /\ HasLength)
         => (adapter = "FromArrayIterable" /\ source = input.elems)
    /\ (~HasIteration /\ ~HasThen /\ ~HasSubscribe /\ ~HasLength)
         => (adapter = "FromAsyncIterable" /\ source = <<input>>)

\* C7 witness: an input with a length, a then and a subscribe method at once
\* has been dispatched.
C7_Witness ==
  /\ Built
  /\ ~HasIteration /\ HasLength /\ HasThen /\ HasSubscribe
  /\ adapter = "FromPromiseIterable"

\* C8: through the Indexed adapter (over a source whose length is the number
\* of its elements) and the Iteration-based adapter the consumer has
\* always received f(s_n, n), n = 0, 1, ..., for the first elements of the
\* source in order, and at exhaustion for all of them: as many values as
\* elements.
C8_OrderAndOrdinals ==
  (Built /\ (HasIteration \/ (adapter = "FromArrayIterable" /\ WellFormedLength))) =>
    /\ source = input.elems
    /\ IsPrefix(received, Projected(source))
    /\ outcome = "done" => received = Projected(source)

\* C8 witness: an array-like source of two different elements fully iterated.
C8_Witness ==
  /\ adapter = "FromArrayIterable"
  /\ WellFormedLength
  /\ outcome = "done"
  /\ Len(received) = 2
  /\ source[1] # source[2]

\* C9: over a deferred value the consumer receives at most one value; at
\* exhaustion it has received exactly f(resolved value, 0); after a rejection
\* it has received nothing, the pull failed with the rejection reason and f
\* was never invoked.
C9_DeferredSingle ==
  adapter = "FromPromiseIterable" =>
    /\ Len(received) <= 1
    /\ outcome = "done" =>
         /\ promise.state = "fulfilled"
         /\ received = <<Selector(promise.value, 0)>>
    /\ promise.state = "rejected" =>
         /\ received = <<>>
         /\ i = 0
         /\ outcome = "error"
         /\ thrown = promise.value
    /\ (promise.state = "fulfilled" /\ selector.failAt = {}) => outcome # "error"

\* C9 witness: the deferred value rejected and the first pull failed with it.
C9_Witness ==
  /\ adapter = "FromPromiseIterable"
  /\ promise.state = "rejected"
  /\ outcome = "error"
  /\ thrown \in Errors

\* C10: for an input of no recognised shape the sequence is the one-element
\* sequence of the input itself: at most one value is produced, no pull fails
\* unless f does, and at exhaustion the consumer has received exactly
\* f(input, 0).
C10_SingletonFallback ==
  (Built /\ ~HasIteration /\ ~HasLength /\ ~HasThen /\ ~HasSubscribe) =>
    /\ Len(received) <= 1
    /\ outcome = "done" => received = <<Selector(input, 0)>>
    /\ outcome = "error" => (0 \in selector.failAt /\ received = <<>>)

\* C10 witness: a shapeless input iterated to exhaustion.
C10_Witness ==
  /\ ~HasIteration /\ ~HasLength /\ ~HasThen /\ ~HasSubscribe
  /\ outcome = "done"
  /\ Len(received) = 1

\* C16: once the observer is closed, a notification (next, error or
\* complete) changes nothing in it: buffer, closed flag, error flag and
\* recorded error stay as the first terminal notification left them.
C16_ClosedIsAbsorbing ==
  [][(observer.closed /\ delivered' # delivered) => observer' = observer]_vars

\* C16 witness: complete was honoured, an error came after it, and the
\* observer still records a normal completion.
C16_Witness ==
  /\ Len(delivered) >= 2
  /\ delivered[1].type = "complete"
  /\ delivered[2].type = "error"
  /\ observer.closed
  /\ ~observer.hasError
  /\ observer.errorValue = "null"

\* The elements the adapter in use takes from its source, in order
SourceItems ==
  IF adapter = "FromObservableAsyncIterable" THEN NextsBeforeTerminal(delivered)
  ELSE IF adapter = "FromPromiseIterable"
    THEN (IF promise.state = "fulfilled" THEN <<promise.value>> ELSE <<>>)
  ELSE IF adapter = "FromArrayIterable"
    THEN [k \in 1..length |-> Index(source, k - 1)]
  ELSE source

\* C17: with any adapter, once f has been invoked on the element on which it
\* fails (the n-th, from 0) and its result has settled, the pull has failed
\* with f's error, the consumer holds exactly f(s_0,0)..f(s_{n-1},n-1) and no
\* value for the n-th element, the generator has ended, and f has been
\* invoked n+1 times in all, whatever pulls follow.
C17_ProjectionFailureIsTerminal ==
  \A n \in selector.failAt :
    (i > n /\ pc # "awaitSelector") =>
      /\ SelectorFailed
      /\ pc = "completed"
      /\ i = n + 1
      /\ Len(received) = n
      /\ Len(SourceItems) >= n
      /\ received = SubSeq(Projected(SourceItems), 1, n)

\* C17 witness: f failed on the second element, the first had been delivered,
\* and the consumer pulled again after the failure.
C17_Witness ==
  /\ selector.failAt = {1}
  /\ SelectorFailed
  /\ received = <<Selector(SourceItems[1], 0)>>
  /\ extraPulls > 0

\* C18: the Indexed adapter fixes L when the iteration starts, L being the
\* source's length without its fraction, 0 when it is negative or no number.
\* It never reads an index outside 0..L-1, the consumer has always received
\* f(source[k], k) for k = 0, 1, ... in order, exactly L values at
\* exhaustion, and none when the length is negative, below 1 or no number.
C18_IndexedLength ==
  (adapter = "FromArrayIterable" /\ started > 0) =>
    LET raw == input.length
        L == IF raw.num /\ raw.halves >= 2
               THEN CHOOSE n \in 1..(MaxLen + 1) :
                      2 * n <= raw.halves /\ raw.halves < 2 * (n + 1)
               ELSE 0
    IN /\ length = L
       /\ i <= L
       /\ Len(received) <= i
       /\ \A k \in 1..Len(received) :
            received[k] = Selector(Index(input.elems, k - 1), k - 1)
       /\ (outcome = "done" => Len(received) = L)
       /\ (L = 0 => (received = <<>> /\ i = 0))

\* C18 witness: a length of 1.5 over two items: one value was produced, for
\* index 0, and the sequence is exhausted.
C18_Witness ==
  /\ adapter = "FromArrayIterable"
  /\ input.length = [num |-> TRUE, halves |-> 3]
  /\ Len(input.elems) = 2
  /\ outcome = "done"
  /\ received = <<Selector(input.elems[1], 0)>>

\* C19: over an observable, subscribe has been called as many times as
\* iterations were started (none by building the sequence), and the step
\* that starts an iteration subscribes once, with a new observer (empty
\* buffer, open, no error) and the ordinal counter at 0, before any poll.
C19_SubscribePerIteration ==
  /\ [](subs = started)
  /\ [][started' # started =>
          /\ started' = started + 1
          /\ subs' = subs + 1
          /\ observer' = NewAsyncObserver
          /\ i' = 0
          /\ pc' = "subscribing"]_vars

\* C19 witness: a second iteration has just started; the first one had seen
\* a value and a complete, and the observer is new.
C19_Witness ==
  /\ started = 2
  /\ subs = 2
  /\ pc = "subscribing"
  /\ Len(delivered) = 2
  /\ delivered[1].type = "next"
  /\ delivered[2].type = "complete"
  /\ Len(received) = 1
  /\ observer = NewAsyncObserver

\* A pull that forEach requested has not returned yet
PullInProgress == pc \in {"subscribing", "loop", "awaitSource", "awaitSelector"}

\* C11: the callback invocations forEach has made are (value, ordinal) for
\* the values produced so far, in order, ordinals 0, 1, 2, ...; at most one
\* invocation is in progress; while a pull is in progress none is, and every
\* value produced has had its invocation; and forEach has resolved only
\* with the sequence exhausted and one completed invocation per value.
C11_ForEachSequential ==
  visitor.pc # "idle" =>
    /\ visitor.active \in {0, 1}
    /\ Len(visitor.calls) <= Len(received)
    /\ \A k \in 1..Len(visitor.calls) : visitor.calls[k] = <<received[k], k - 1>>
    /\ visitor.pulls <= Len(visitor.calls) + 1
    /\ PullInProgress =>
         (visitor.active = 0 /\ Len(visitor.calls) = Len(received))
    /\ visitor.pc = "resolved" =>
         /\ outcome = "done"
         /\ visitor.active = 0
         /\ Len(visitor.calls) = Len(received)

\* C11 witness: forEach resolved after two values, each given to the callback.
C11_Witness ==
  /\ visitor.pc = "resolved"
  /\ Len(visitor.calls) = 2
  /\ visitor.pulls = 3

\* C12: when a pull has failed, or the callback has failed on the k-th value
\* and settled, forEach has rejected with that same error; and once it has
\* rejected the generator has ended, no invocation is in progress, the
\* callback was invoked for no later value and no further value was
\* requested.
C12_ForEachPropagates ==
  visitor.pc # "idle" =>
    /\ (outcome = "error" /\ visitor.pc # "awaitNext") =>
         (visitor.pc = "rejected" /\ visitor.error = thrown)
    /\ \A k \in visitor.failAt :
         (Len(visitor.calls) > k /\ visitor.pc # "inCallback") =>
           /\ visitor.pc = "rejected"
           /\ visitor.error = CallbackError
           /\ Len(visitor.calls) = k + 1
           /\ visitor.pulls = k + 1
           /\ Len(received) = k + 1
    /\ visitor.pc = "rejected" =>
         /\ pc = "completed"
         /\ visitor.active = 0
         /\ visitor.error # CallbackError =>
              /\ outcome = "error"
              /\ Len(visitor.calls) = Len(received)
              /\ visitor.pulls = Len(received) + 1

\* C12 witness: the callback failed on the first of two elements; forEach
\* rejected with its error after one invocation and one pull.
C12_Witness ==
  /\ visitor.pc = "rejected"
  /\ visitor.error = CallbackError
  /\ adapter = "FromArrayIterable"
  /\ length = 2
  /\ Len(visitor.calls) = 1
  /\ visitor.pulls = 1

\* t_n(...t_2(t_1(S))...) written from the outermost transform inwards
RECURSIVE Nested(_, _)
Nested(ts, n) ==
  IF n = 0 THEN Self ELSE [op |-> ts[n], input |-> <<Nested(ts, n - 1)>>]

\* Number of transforms applied, one over the other, to obtain sequence s
RECURSIVE Depth(_)
Depth(s) == IF s.input = <<>> THEN 0 ELSE 1 + Depth(s.input[1])

\* C13: pipe() with no transform returns the sequence it was called on
\* itself, not a sequence over it.
C13_EmptyPipeIsIdentity ==
  (piped.called /\ piped.operations = <<>>) =>
    (piped.result = Self /\ Depth(piped.result) = 0)

\* C13 witness: pipe() was called with no transform.
C13_Witness ==
  /\ piped.called
  /\ piped.operations = <<>>
  /\ pc = "suspendedStart"

\* C14: pipe(t_1, ..., t_n), n >= 1, returns t_n(...t_2(t_1(S))...): every
\* transform applied once, left to right, each to the result of the one
\* before, the first to S.
C14_PipeLeftToRight ==
  (piped.called /\ Len(piped.operations) >= 1) =>
    /\ piped.result = Nested(piped.operations, Len(piped.operations))
    /\ Depth(piped.result) = Len(piped.operations)

\* C14 witness: pipe(t1, t2) was called: two different transforms.
C14_Witness ==
  /\ piped.called
  /\ Len(piped.operations) = 2
  /\ piped.operations[1] # piped.operations[2]
  /\ piped.result.op = piped.operations[2]

\* C15: until the first pull, whether or not from() and pipe() have been
\* called, nothing has been produced: no projection invoked, no source
\* element taken, no subscription, no notification received, no value
\* delivered, and the generator has not left its start.
C15_PipeIsLazy ==
  started = 0 =>
    /\ pc \in {"unbuilt", "suspendedStart"}
    /\ i = 0
    /\ pos = 0
    /\ subs = 0
    /\ delivered = <<>>
    /\ received = <<>>
    /\ pending = NoPending
    /\ promise.state = "pending"

\* C15 witness: after pipe(t, t') and one pull a value has been produced.
C15_Witness ==
  /\ piped.called
  /\ Len(piped.operations) = 2
  /\ started = 1
  /\ i = 1
  /\ Len(received) = 1

\* Number of positions of sequence s that hold v, and that hold an item the
\* comparer takes as equal to v
Occurrences(s, v) == Cardinality({k \in 1..Len(s) : s[k] = v})
Equivalents(s, v, comparer) ==
  Cardinality({k \in 1..Len(s) : Compare(comparer, s[k], v)})
Min(m, n) == IF m <= n THEN m ELSE n
Range(s) == {s[k] : k \in 1..Len(s)}

\* The items of second[1..n] that, counted among their equals in second, are
\* not beyond the number of their equals in first
RECURSIVE Matched(_, _, _, _)
Matched(first, second, n, comparer) ==
  IF n = 0
    THEN <<>>
    ELSE LET rest == Matched(first, second, n - 1, comparer)
         IN  IF Equivalents(SubSeq(second, 1, n), second[n], comparer)
                  <= Equivalents(first, second[n], comparer)
               THEN Append(rest, second[n])
               ELSE rest

\* C20 as stated: once intersect has finished, every yielded item occurs in
\* first and in second, each value is yielded min(occurrences in first,
\* occurrences in second) times, and no more than min(|first|, |second|)
\* items are yielded, whatever the comparer.
C20_OccurrencesInBoth ==
  isect.pc = "completed" =>
    /\ Range(isect.out) \subseteq Range(isect.first) \cap Range(isect.second)
    /\ \A v \in Items :
         Occurrences(isect.out, v) =
           Min(Occurrences(isect.first, v), Occurrences(isect.second, v))
    /\ Len(isect.out) <= Min(Len(isect.first), Len(isect.second))

\* C20: what intersect has yielded after reading j items of second is, in
\* the order of second, those of the items that have an unmatched equal in
\* first under the comparer; map holds the unmatched rest of first; so for
\* each value the yielded items equal to it under the comparer number
\* min(equals in first, equals in second), the length is at most
\* min(|first|, |second|), and with the default comparer every yielded item
\* occurs in both inputs, min(occurrences) times.
C20_IntersectMatching ==
  isect.pc \in {"suspendedYield", "completed"} =>
    /\ isect.out =
         Matched(isect.first, isect.second, isect.j, isect.comparer)
    /\ Len(isect.map) + Len(isect.out) = Len(isect.first)
    /\ Len(isect.out) <= Min(Len(isect.first), Len(isect.second))
    /\ Range(isect.out) \subseteq Range(isect.second)
    /\ isect.pc = "completed" =>
         /\ isect.j = Len(isect.second)
         /\ \A v \in Items :
              Equivalents(isect.out, v, isect.comparer) =
                Min(Equivalents(isect.first, v, isect.comparer),
                    Equivalents(isect.second, v, isect.comparer))
         /\ isect.comparer = "default" =>
              /\ Range(isect.out) \subseteq Range(isect.first)
              /\ \A v \in Items :
                   Occurrences(isect.out, v) =
                     Min(Occurrences(isect.first, v),
                         Occurrences(isect.second, v))

\* C20 witness: intersect finished having yielded one of two equal items of
\* second and skipped an item without an equal in first.
C20_Witness ==
  /\ isect.pc = "completed"
  /\ isect.first = <<"a", "b">>
  /\ isect.second = <<"b", "a", "A">>
  /\ isect.comparer = "ignoreCase"
  /\ isect.out = <<"b", "a">>
  /\ isect.map = <<>>

====
